---------------------------- MODULE Spec2Model ----------------------------
(***************************************************************************)
(* Document Insights Generator (src/4dc66906.py): a Streamlit script that  *)
(* extracts the text of an uploaded PDF/DOCX/TXT file, embeds it with a    *)
(* question into a prompt, sends the prompt to a completion service and    *)
(* offers the answer for download.                                         *)
(*                                                                         *)
(* Conventions.  A Python str is a sequence of one-character strings       *)
(* ("\n" is the newline, "U+274C" the cross-mark code point).  Python's    *)
(* None is the one-element sequence None, whose element is no character.   *)
(* Every user event is one run of the script from top to bottom, so every  *)
(* action below is one such run: the upload block, the pressed button's    *)
(* handler, and the rendering of the sections that follow.                 *)
(*                                                                         *)
(* The PDF/DOCX libraries and the completion service are outside the       *)
(* repository.  What a library returns for a file's bytes is carried by    *)
(* the file itself (fields pdf and docx of its content); what the service  *)
(* answers is an input of the generate action.                             *)
(***************************************************************************)
EXTENDS Integers, Sequences, FiniteSets, TLC

VARIABLES
    PDF_AVAILABLE,   \* lines 9-13: PyPDF2 could be imported
    DOCX_AVAILABLE,  \* lines 15-19: python-docx could be imported
    uploaded_file,   \* line 226: the file held by the uploader widget, or NoFile
    document_text,   \* st.session_state.document_text
    insights,        \* st.session_state.insights
    filename,        \* st.session_state.filename
    question,        \* st.session_state.question (absent until the first request)
    ui,              \* the st.success / st.error call of the last run
    event,           \* the user event of the last run, with its inputs
    remote_calls,    \* calls of openai.ChatCompletion.create made by the last run
    request,         \* the last request sent to the completion service
    extraction,      \* how the last extract_text call went (branch taken)
    doc_source,      \* name of the file document_text was extracted from
    crashed,         \* the last run ended in an unhandled exception
    probe            \* a direct call of a function: its arguments and its result

vars == <<PDF_AVAILABLE, DOCX_AVAILABLE, uploaded_file, document_text, insights,
          filename, question, ui, event, remote_calls, request, extraction,
          doc_source, crashed, probe>>

----------------------------------------------------------------------------
(* Bounds of the model *)

\* longest page list, paragraph list and byte string of a sample file
MaxParts == 2

\* text lengths tried on each side of the truncation limit
Slack == 2

----------------------------------------------------------------------------
(* Python values and built-ins *)

None == <<"<None>">>

\* truth value of an Optional[str]: None and "" are false
Truthy(s) == s # None /\ s # <<>>

StartsWith(s, prefix) ==
    Len(s) >= Len(prefix) /\ SubSeq(s, 1, Len(prefix)) = prefix

EndsWith(s, suffix) ==
    Len(s) >= Len(suffix) /\ SubSeq(s, Len(s) - Len(suffix) + 1, Len(s)) = suffix

\* s[:n]
Take(s, n) == SubSeq(s, 1, IF Len(s) < n THEN Len(s) ELSE n)

IsSpace(c) == c \in {" ", "\n", "\t", "\r"}

RECURSIVE lstrip(_)
lstrip(s) == IF s # <<>> /\ IsSpace(Head(s)) THEN lstrip(Tail(s)) ELSE s

RECURSIVE rstrip(_)
rstrip(s) ==
    IF s # <<>> /\ IsSpace(s[Len(s)]) THEN rstrip(SubSeq(s, 1, Len(s) - 1)) ELSE s

\* str.strip()
strip(s) == rstrip(lstrip(s))

\* a byte that is no valid UTF-8; every other byte of the model is ASCII and
\* is written as the character it encodes
InvalidByte == "xFF"

\* bytes.decode('utf-8', errors='ignore'): undecodable bytes are dropped
RECURSIVE decode_ignore(_)
decode_ignore(b) ==
    IF b = <<>> THEN <<>>
    ELSE IF Head(b) = InvalidByte THEN decode_ignore(Tail(b))
    ELSE <<Head(b)>> \o decode_ignore(Tail(b))

\* "\n".join(parts)
RECURSIVE join_newline(_)
join_newline(parts) ==
    IF parts = <<>> THEN <<>>
    ELSE IF Len(parts) = 1 THEN parts[1]
    ELSE parts[1] \o <<"\n">> \o join_newline(Tail(parts))

----------------------------------------------------------------------------
(* String literals of the source *)

\* line 128
PdfUnavailableMsg ==
    <<"P", "D", "F", " ", "s", "u", "p", "p", "o", "r", "t", " ", "n", "o", "t", " ",
      "a", "v", "a", "i", "l", "a", "b", "l", "e", ".", " ", "P", "l", "e", "a", "s",
      "e", " ", "i", "n", "s", "t", "a", "l", "l", " ", "P", "y", "P", "D", "F", "2",
      ".">>

\* line 136
ErrPdfPrefix ==
    <<"E", "r", "r", "o", "r", " ", "e", "x", "t", "r", "a", "c", "t", "i", "n", "g",
      " ", "P", "D", "F", ":", " ">>

\* line 142
DocxUnavailableMsg ==
    <<"D", "O", "C", "X", " ", "s", "u", "p", "p", "o", "r", "t", " ", "n", "o", "t",
      " ", "a", "v", "a", "i", "l", "a", "b", "l", "e", ".", " ", "P", "l", "e", "a",
      "s", "e", " ", "i", "n", "s", "t", "a", "l", "l", " ", "p", "y", "t", "h", "o",
      "n", "-", "d", "o", "c", "x", ".">>

\* line 148
ErrDocxPrefix ==
    <<"E", "r", "r", "o", "r", " ", "e", "x", "t", "r", "a", "c", "t", "i", "n", "g",
      " ", "D", "O", "C", "X", ":", " ">>

\* line 155
ErrTxtPrefix ==
    <<"E", "r", "r", "o", "r", " ", "e", "x", "t", "r", "a", "c", "t", "i", "n", "g",
      " ", "T", "X", "T", ":", " ">>

\* line 169
UnsupportedMsg ==
    <<"U", "n", "s", "u", "p", "p", "o", "r", "t", "e", "d", " ", "f", "i", "l", "e",
      " ", "f", "o", "r", "m", "a", "t", ".", " ", "P", "l", "e", "a", "s", "e", " ",
      "u", "p", "l", "o", "a", "d", " ", "P", "D", "F", ",", " ", "D", "O", "C", "X",
      ",", " ", "o", "r", " ", "T", "X", "T", " ", "f", "i", "l", "e", "s", ".">>

\* line 180
TruncationMarker ==
    <<"\n", "\n", "[", "D", "o", "c", "u", "m", "e", "n", "t", " ", "t", "r", "u", "n",
      "c", "a", "t", "e", "d", " ", "f", "o", "r", " ", "p", "r", "o", "c", "e", "s",
      "s", "i", "n", "g", ".", ".", ".", "]">>

\* lines 183-185
PromptHead ==
    <<"Y", "o", "u", " ", "a", "r", "e", " ", "a", " ", "h", "e", "l", "p", "f", "u",
      "l", " ", "A", "I", " ", "a", "s", "s", "i", "s", "t", "a", "n", "t", " ", "t",
      "h", "a", "t", " ", "a", "n", "a", "l", "y", "z", "e", "s", " ", "d", "o", "c",
      "u", "m", "e", "n", "t", "s", " ", "a", "n", "d", " ", "p", "r", "o", "v", "i",
      "d", "e", "s", " ", "c", "l", "e", "a", "r", ",", " ", "d", "e", "t", "a", "i",
      "l", "e", "d", " ", "i", "n", "s", "i", "g", "h", "t", "s", ".", "\n", "\n", "R",
      "e", "a", "d", " ", "t", "h", "e", " ", "f", "o", "l", "l", "o", "w", "i", "n",
      "g", " ", "d", "o", "c", "u", "m", "e", "n", "t", " ", "c", "a", "r", "e", "f",
      "u", "l", "l", "y", " ", "a", "n", "d", " ", "a", "n", "s", "w", "e", "r", " ",
      "t", "h", "i", "s", " ", "q", "u", "e", "s", "t", "i", "o", "n", ":", " ">>

\* lines 185-188
PromptMid ==
    <<"\n", "\n", "D", "o", "c", "u", "m", "e", "n", "t", ":", "\n">>

\* lines 188-190
PromptTail ==
    <<"\n", "\n", "P", "l", "e", "a", "s", "e", " ", "p", "r", "o", "v", "i", "d", "e",
      " ", "a", " ", "c", "o", "m", "p", "r", "e", "h", "e", "n", "s", "i", "v", "e",
      " ", "a", "n", "s", "w", "e", "r", " ", "b", "a", "s", "e", "d", " ", "o", "n",
      "l", "y", " ", "o", "n", " ", "t", "h", "e", " ", "i", "n", "f", "o", "r", "m",
      "a", "t", "i", "o", "n", " ", "i", "n", " ", "t", "h", "e", " ", "d", "o", "c",
      "u", "m", "e", "n", "t", ".", " ", "I", "f", " ", "t", "h", "e", " ", "d", "o",
      "c", "u", "m", "e", "n", "t", " ", "d", "o", "e", "s", "n", "'", "t", " ", "c",
      "o", "n", "t", "a", "i", "n", " ", "e", "n", "o", "u", "g", "h", " ", "i", "n",
      "f", "o", "r", "m", "a", "t", "i", "o", "n", " ", "t", "o", " ", "a", "n", "s",
      "w", "e", "r", " ", "t", "h", "e", " ", "q", "u", "e", "s", "t", "i", "o", "n",
      ",", " ", "s", "a", "y", " ", "s", "o", " ", "c", "l", "e", "a", "r", "l", "y",
      ".">>

\* line 196
SystemMessage ==
    <<"Y", "o", "u", " ", "a", "r", "e", " ", "a", " ", "h", "e", "l", "p", "f", "u",
      "l", " ", "a", "s", "s", "i", "s", "t", "a", "n", "t", " ", "t", "h", "a", "t",
      " ", "p", "r", "o", "v", "i", "d", "e", "s", " ", "c", "l", "e", "a", "r", ",",
      " ", "d", "e", "t", "a", "i", "l", "e", "d", " ", "d", "o", "c", "u", "m", "e",
      "n", "t", " ", "a", "n", "a", "l", "y", "s", "i", "s", ".">>

\* line 206
InvalidKeyMsg ==
    <<"U+274C", " ", "I", "n", "v", "a", "l", "i", "d", " ", "A", "P", "I", " ", "k", "e",
      "y", ".", " ", "P", "l", "e", "a", "s", "e", " ", "c", "h", "e", "c", "k", " ",
      "y", "o", "u", "r", " ", "O", "p", "e", "n", "A", "I", " ", "A", "P", "I", " ",
      "k", "e", "y", " ", "a", "n", "d", " ", "t", "r", "y", " ", "a", "g", "a", "i",
      "n", ".">>

\* line 208
RateLimitMsg ==
    <<"U+274C", " ", "R", "a", "t", "e", " ", "l", "i", "m", "i", "t", " ", "e", "x", "c",
      "e", "e", "d", "e", "d", ".", " ", "P", "l", "e", "a", "s", "e", " ", "c", "h",
      "e", "c", "k", " ", "y", "o", "u", "r", " ", "A", "P", "I", " ", "q", "u", "o",
      "t", "a", " ", "o", "r", " ", "t", "r", "y", " ", "a", "g", "a", "i", "n", " ",
      "l", "a", "t", "e", "r", ".">>

\* line 210
InvalidRequestPrefix ==
    <<"U+274C", " ", "I", "n", "v", "a", "l", "i", "d", " ", "r", "e", "q", "u", "e", "s",
      "t", ":", " ">>

\* line 212
GenericErrorPrefix ==
    <<"U+274C", " ", "E", "r", "r", "o", "r", " ", "g", "e", "n", "e", "r", "a", "t", "i",
      "n", "g", " ", "i", "n", "s", "i", "g", "h", "t", "s", ":", " ">>

\* TypeError text of None + "\n" (line 133)
NoneTypeConcatMsg ==
    <<"u", "n", "s", "u", "p", "p", "o", "r", "t", "e", "d", " ", "o", "p", "e", "r",
      "a", "n", "d", " ", "t", "y", "p", "e", "(", "s", ")", " ", "f", "o", "r", " ",
      "+", ":", " ", "'", "N", "o", "n", "e", "T", "y", "p", "e", "'", " ", "a", "n",
      "d", " ", "'", "s", "t", "r", "'">>

DotPdf == <<".", "p", "d", "f">>
DotDocx == <<".", "d", "o", "c", "x">>
DotTxt == <<".", "t", "x", "t">>
ErrorWord == <<"E", "r", "r", "o", "r">>
UnsupportedWord == <<"U", "n", "s", "u", "p", "p", "o", "r", "t", "e", "d">>

MimePdf == "application/pdf"
MimeDocx == "application/vnd.openxmlformats-officedocument.wordprocessingml.document"
MimeTxt == "text/plain"

----------------------------------------------------------------------------
(* The extractor, lines 124-169 *)

\* what a library call does: return val, or raise an exception whose str() is msg
Returns(v) == [raises |-> FALSE, msg |-> <<>>, val |-> v]
Raises(m) == [raises |-> TRUE, msg |-> m, val |-> <<>>]

\* what an extraction routine hands back: the string, and which branch produced it
Outcome(value, kind, routine, parser) ==
    [raised |-> FALSE, value |-> value, kind |-> kind, routine |-> routine,
     parser |-> parser]

\* PdfReader(io.BytesIO(file_bytes)): the pages, or an exception
PdfReader(file_bytes) == file_bytes.pdf

\* DocxDocument(io.BytesIO(file_bytes)): the paragraphs, or an exception
DocxDocument(file_bytes) == file_bytes.docx

\* the loop of lines 131-133 from page i on: text += page.extract_text() + "\n".
\* A page yields its text, or None (None + "\n" is a TypeError), or raises.
RECURSIVE pdf_pages_text(_, _, _)
pdf_pages_text(pages, i, text) ==
    IF i > Len(pages) THEN Returns(text)
    ELSE IF pages[i].raises THEN Raises(pages[i].msg)
    ELSE IF pages[i].val = None THEN Raises(NoneTypeConcatMsg)
    ELSE pdf_pages_text(pages, i + 1, text \o pages[i].val \o <<"\n">>)

\* extract_text_from_pdf without its try/except: a library exception escapes
extract_text_from_pdf_uncaught(file_bytes) ==
    IF ~PDF_AVAILABLE THEN Outcome(PdfUnavailableMsg, "unavailable", "pdf", FALSE)
    ELSE LET pdf_reader == PdfReader(file_bytes) IN
         IF pdf_reader.raises
         THEN [Outcome(None, "parse_error", "pdf", TRUE) EXCEPT !.raised = TRUE]
         ELSE LET text == pdf_pages_text(pdf_reader.val, 1, <<>>) IN
              IF text.raises
              THEN [Outcome(None, "parse_error", "pdf", TRUE) EXCEPT !.raised = TRUE]
              ELSE Outcome(strip(text.val), "ok", "pdf", TRUE)

extract_text_from_pdf(file_bytes) ==
    IF ~PDF_AVAILABLE THEN Outcome(PdfUnavailableMsg, "unavailable", "pdf", FALSE)
    ELSE LET pdf_reader == PdfReader(file_bytes) IN
         IF pdf_reader.raises
         THEN Outcome(ErrPdfPrefix \o pdf_reader.msg, "parse_error", "pdf", TRUE)
         ELSE LET text == pdf_pages_text(pdf_reader.val, 1, <<>>) IN
              IF text.raises
              THEN Outcome(ErrPdfPrefix \o text.msg, "parse_error", "pdf", TRUE)
              ELSE Outcome(strip(text.val), "ok", "pdf", TRUE)

extract_text_from_docx(file_bytes) ==
    IF ~DOCX_AVAILABLE THEN Outcome(DocxUnavailableMsg, "unavailable", "docx", FALSE)
    ELSE LET doc == DocxDocument(file_bytes) IN
         IF doc.raises
         THEN Outcome(ErrDocxPrefix \o doc.msg, "parse_error", "docx", TRUE)
         ELSE Outcome(strip(join_newline(doc.val)), "ok", "docx", TRUE)

extract_text_from_txt(file_bytes) ==
    Outcome(strip(decode_ignore(file_bytes.bytes)), "ok", "txt", FALSE)

\* extract_text whose last branch reads an unknown file as plain text
extract_text_default_txt(file) ==
    LET file_bytes == file.content
        file_type == file.type
    IN  IF file_type = MimePdf \/ EndsWith(file.name, DotPdf)
        THEN extract_text_from_pdf(file_bytes)
        ELSE IF file_type = MimeDocx \/ EndsWith(file.name, DotDocx)
        THEN extract_text_from_docx(file_bytes)
        ELSE extract_text_from_txt(file_bytes)

extract_text(file) ==
    LET file_bytes == file.content
        file_type == file.type
    IN  IF file_type = MimePdf \/ EndsWith(file.name, DotPdf)
        THEN extract_text_from_pdf(file_bytes)
        ELSE IF file_type = MimeDocx \/ EndsWith(file.name, DotDocx)
        THEN extract_text_from_docx(file_bytes)
        ELSE IF file_type = MimeTxt \/ EndsWith(file.name, DotTxt)
        THEN extract_text_from_txt(file_bytes)
        ELSE Outcome(UnsupportedMsg, "unsupported", "none", FALSE)

----------------------------------------------------------------------------
(* The prompt builder and the insight requester, lines 171-212 *)

max_chars == 12000

\* build_prompt cutting one character late
build_prompt_cut_late(text, q) ==
    LET doc == IF Len(text) > max_chars
               THEN SubSeq(text, 1, max_chars + 1) \o TruncationMarker
               ELSE text
    IN  PromptHead \o q \o PromptMid \o doc \o PromptTail

\* build_prompt truncating from max_chars characters on (>= for >)
build_prompt_ge(text, q) ==
    LET doc == IF Len(text) >= max_chars
               THEN SubSeq(text, 1, max_chars) \o TruncationMarker
               ELSE text
    IN  PromptHead \o q \o PromptMid \o doc \o PromptTail

\* lines 177-190: the truncation and the f-string template
build_prompt(text, q) ==
    LET doc == IF Len(text) > max_chars
               THEN SubSeq(text, 1, max_chars) \o TruncationMarker
               ELSE text
    IN  PromptHead \o q \o PromptMid \o doc \o PromptTail

\* what openai.ChatCompletion.create does: return a response whose first choice
\* has content val, or raise an exception of class cls whose str() is msg
ServiceReturns(content) == [raises |-> FALSE, cls |-> "", msg |-> <<>>, val |-> content]
ServiceRaises(cls, m) == [raises |-> TRUE, cls |-> cls, msg |-> m, val |-> <<>>]

\* error_message with the catch-all clause first: every failure reads alike
error_message_collapsed(service) == GenericErrorPrefix \o service.msg

\* the except clauses of lines 205-212, tried in order
error_message(service) ==
    IF service.cls = "AuthenticationError" THEN InvalidKeyMsg
    ELSE IF service.cls = "RateLimitError" THEN RateLimitMsg
    ELSE IF service.cls = "InvalidRequestError" THEN InvalidRequestPrefix \o service.msg
    ELSE GenericErrorPrefix \o service.msg

generate_insights(text, q, api_key, model_name, temp, service) ==
    LET prompt == build_prompt(text, q)
        sent == [api_key |-> api_key, model |-> model_name,
                 system |-> SystemMessage, prompt |-> prompt,
                 max_tokens |-> 1000, temperature |-> temp,
                 document_text |-> text, question |-> q]
    IN  [raised |-> FALSE,
         value |-> IF service.raises THEN error_message(service) ELSE service.val,
         request |-> sent,
         calls |-> 1]

----------------------------------------------------------------------------
(* Inputs *)

SeqsUpTo(S, n) == UNION {[1..k -> S] : k \in 0..n}

\* what page.extract_text() does for a page
PageOutcomes == {Returns(<<"a">>), Returns(<<>>), Returns(None)}

ParagraphTexts == {<<"b">>, <<>>}

FileBytes == {"c", " ", InvalidByte}

NamePdf == <<"r">> \o DotPdf
NameDocx == <<"m">> \o DotDocx
NameTxt == <<"n">> \o DotTxt
NameTxt2 == <<"o">> \o DotTxt

\* line 226: the uploader holds no file
NoFile == [name |-> None, type |-> "", content |-> [bytes |-> <<>>, pdf |-> Raises(<<>>), docx |-> Raises(<<>>)]]

\* a file's content: its bytes, and what each library makes of them
PdfDoc(p) == [bytes |-> <<"%">>, pdf |-> p, docx |-> Raises(<<"z">>)]
DocxDoc(d) == [bytes |-> <<"P">>, pdf |-> Raises(<<"e">>), docx |-> d]
TxtDoc(b) == [bytes |-> b, pdf |-> Raises(<<"e">>), docx |-> Raises(<<"z">>)]

\* lines 226-230: the uploader accepts the extensions pdf, docx, txt; the files
\* the user has at hand
Files ==
    {[name |-> NamePdf, type |-> MimePdf, content |-> PdfDoc(p)] :
        p \in {Returns(<<Returns(<<"a">>)>>), Returns(<<Returns(None)>>),
               Raises(<<"e">>)}}
    \cup {[name |-> NameDocx, type |-> MimeDocx, content |-> DocxDoc(d)] :
            d \in {Returns(<<<<"b">>>>), Raises(<<"z">>)}}
    \cup {[name |-> NameTxt, type |-> MimeTxt, content |-> TxtDoc(b)] :
            b \in {<<"c">>, <<" ">>}}
    \cup {[name |-> NameTxt2, type |-> MimeTxt,
           content |-> TxtDoc(<<InvalidByte, "t", " ">>)]}

ApiKeys == {<<>>, <<"s", "k">>}
Questions == {<<>>, <<"q">>}
DefaultModel == "gpt-3.5-turbo"
DefaultTemperature == "0.3"

ServiceOutcomes ==
    {ServiceReturns(<<"A">>), ServiceReturns(<<>>)}
    \cup {ServiceRaises(c, <<"d">>) :
            c \in {"AuthenticationError", "RateLimitError", "InvalidRequestError",
                   "APIConnectionError"}}

\* the service answers only when it is called (lines 276-280)
NoAnswer == ServiceReturns(<<>>)
ServiceOutcomesFor(api_key, q) ==
    IF api_key = <<>> \/ q = <<>> THEN {NoAnswer} ELSE ServiceOutcomes

----------------------------------------------------------------------------
(* The session: one action per user event, each a whole run of the script *)

\* st.session_state has no attribute question
Unset == <<"<unset>">>

NoRequest ==
    [api_key |-> <<>>, model |-> "", system |-> <<>>, prompt |-> None,
     max_tokens |-> 0, temperature |-> "", document_text |-> None, question |-> None]

NoExtraction == [kind |-> "none", routine |-> "none", parser |-> FALSE]

\* no function is called directly
NoProbe ==
    [fn |-> "none", called |-> FALSE, raised |-> FALSE, file |-> NoFile,
     text |-> None, question |-> None, service |-> NoAnswer, result |-> None,
     request |-> NoRequest, extraction |-> NoExtraction]

Event(kind) ==
    [kind |-> kind, api_key |-> <<>>, question |-> <<>>, service |-> NoAnswer]

\* line 253: the question section is rendered
QuestionSectionShown == Truthy(document_text)

\* line 293: the insight and the download buttons are rendered
ExportOffered == Truthy(insights)

\* lines 307-321: the fields of the plain-text report
result_text ==
    [document |-> filename, question |-> question, insights |-> insights,
     excerpt |-> Take(document_text, 2000) \o <<".", ".", ".">>]

\* lines 293-354 raise when the report reads a missing question or slices None
RenderRaises(text, ins, q) == Truthy(ins) /\ (q = Unset \/ text = None)

\* line 242: the test the extract handler takes for success
LooksExtracted(text) ==
    Truthy(text) /\ ~StartsWith(text, ErrorWord) /\ ~StartsWith(text, UnsupportedWord)

Init ==
    /\ PDF_AVAILABLE \in BOOLEAN
    /\ DOCX_AVAILABLE \in BOOLEAN
    /\ uploaded_file = NoFile
    /\ document_text = None
    /\ insights = None
    /\ filename = None
    /\ question = Unset
    /\ ui = "none"
    /\ event = Event("start")
    /\ remote_calls = 0
    /\ request = NoRequest
    /\ extraction = NoExtraction
    /\ doc_source = None
    /\ crashed = FALSE
    /\ probe = NoProbe

\* validation that forgets the question
validation_key_only(api_key, q) == IF api_key = <<>> THEN "need_key" ELSE "ok"

\* lines 276-280: what the generate handler requires before it calls
validation(api_key, q) ==
    IF api_key = <<>> THEN "need_key"
    ELSE IF q = <<>> THEN "need_question"
    ELSE "ok"

\* lines 226-234: the user selects a file
Upload(f) ==
    /\ f # uploaded_file
    /\ uploaded_file' = f
    /\ filename' = f.name
    /\ ui' = "none"
    /\ event' = Event("upload")
    /\ remote_calls' = 0
    /\ crashed' = RenderRaises(document_text, insights, question)
    /\ UNCHANGED <<PDF_AVAILABLE, DOCX_AVAILABLE, document_text, insights, question,
                   request, extraction, doc_source, probe>>

\* lines 226-232: the user removes the file from the uploader
RemoveFile ==
    /\ uploaded_file # NoFile
    /\ uploaded_file' = NoFile
    /\ ui' = "none"
    /\ event' = Event("remove")
    /\ remote_calls' = 0
    /\ crashed' = RenderRaises(document_text, insights, question)
    /\ UNCHANGED <<PDF_AVAILABLE, DOCX_AVAILABLE, document_text, insights, filename,
                   question, request, extraction, doc_source, probe>>

\* lines 232-250: the Extract button
Extract ==
    /\ uploaded_file # NoFile
    /\ LET r == extract_text(uploaded_file) IN
       /\ filename' = uploaded_file.name
       /\ extraction' = [kind |-> r.kind, routine |-> r.routine, parser |-> r.parser]
       /\ IF r.raised
          THEN /\ crashed' = TRUE
               /\ ui' = "none"
               /\ UNCHANGED <<document_text, doc_source>>
          ELSE /\ document_text' = r.value
               /\ doc_source' = uploaded_file.name
               /\ ui' = IF LooksExtracted(r.value) THEN "success" ELSE "error"
               /\ crashed' = RenderRaises(r.value, insights, question)
    /\ event' = Event("extract")
    /\ remote_calls' = 0
    /\ UNCHANGED <<PDF_AVAILABLE, DOCX_AVAILABLE, uploaded_file, insights, question,
                   request, probe>>

\* lines 232-234, 253, 275-290: the Generate Insights button
Generate(api_key, q, service) ==
    /\ QuestionSectionShown
    /\ filename' = IF uploaded_file # NoFile THEN uploaded_file.name ELSE filename
    /\ event' = [kind |-> "generate", api_key |-> api_key, question |-> q,
                 service |-> service]
    /\ IF validation(api_key, q) # "ok"
       THEN /\ ui' = validation(api_key, q)
            /\ remote_calls' = 0
            /\ crashed' = RenderRaises(document_text, insights, question)
            /\ UNCHANGED <<insights, question, request>>
       ELSE LET g == generate_insights(document_text, q, api_key, DefaultModel,
                                       DefaultTemperature, service) IN
            /\ ui' = "none"
            /\ remote_calls' = g.calls
            /\ request' = g.request
            /\ IF g.raised
               THEN /\ crashed' = TRUE
                    /\ UNCHANGED <<insights, question>>
               ELSE /\ insights' = g.value
                    /\ question' = q
                    /\ crashed' = RenderRaises(document_text, g.value, q)
    /\ UNCHANGED <<PDF_AVAILABLE, DOCX_AVAILABLE, uploaded_file, document_text,
                   extraction, doc_source, probe>>

\* lines 323-354: a download button (the report is result_text)
Download ==
    /\ ExportOffered
    /\ filename' = IF uploaded_file # NoFile THEN uploaded_file.name ELSE filename
    /\ ui' = "none"
    /\ event' = Event("download")
    /\ remote_calls' = 0
    /\ crashed' = RenderRaises(document_text, insights, question)
    /\ UNCHANGED <<PDF_AVAILABLE, DOCX_AVAILABLE, uploaded_file, document_text,
                   insights, question, request, extraction, doc_source, probe>>

\* lines 356-361, then the run st.rerun() starts (lines 232-234)
Reset ==
    /\ ExportOffered
    /\ document_text' = None
    /\ insights' = None
    /\ filename' = IF uploaded_file # NoFile THEN uploaded_file.name ELSE None
    /\ doc_source' = None
    /\ ui' = "none"
    /\ event' = Event("reset")
    /\ remote_calls' = 0
    /\ crashed' = RenderRaises(None, None, question)
    /\ UNCHANGED <<PDF_AVAILABLE, DOCX_AVAILABLE, uploaded_file, question, request,
                   extraction, probe>>

Next ==
    \/ \E f \in Files : Upload(f)
    \/ RemoveFile
    \/ Extract
    \/ \E k \in ApiKeys, q \in Questions :
          \E s \in ServiceOutcomesFor(k, q) : Generate(k, q, s)
    \/ Download
    \/ Reset

Spec == Init /\ [][Next]_vars

----------------------------------------------------------------------------
(* extract_text called directly, on any file object *)

PdfDocs(n) ==
    {PdfDoc(p) : p \in {Raises(<<"e">>)} \cup {Returns(s) : s \in SeqsUpTo(PageOutcomes, n)}}

DocxDocs(n) ==
    {DocxDoc(d) : d \in {Raises(<<"z">>)} \cup {Returns(s) : s \in SeqsUpTo(ParagraphTexts, n)}}

TxtDocs(n) == {TxtDoc(b) : b \in SeqsUpTo(FileBytes, n)}

AnyNames ==
    {NamePdf, NameDocx, NameTxt, <<"r", ".", "P", "D", "F">>,
     <<"k", ".", "b", "i", "n">>, <<"p", "d", "f">>}

AnyTypes == {MimePdf, MimeDocx, MimeTxt, "application/octet-stream", ""}

AnyFiles ==
    {[name |-> n, type |-> t, content |-> c] :
        n \in AnyNames, t \in AnyTypes,
        c \in PdfDocs(MaxParts) \cup DocxDocs(MaxParts) \cup TxtDocs(MaxParts)}

InitExtract ==
    /\ PDF_AVAILABLE \in BOOLEAN
    /\ DOCX_AVAILABLE \in BOOLEAN
    /\ uploaded_file = NoFile
    /\ document_text = None
    /\ insights = None
    /\ filename = None
    /\ question = Unset
    /\ ui = "none"
    /\ event = Event("start")
    /\ remote_calls = 0
    /\ request = NoRequest
    /\ extraction = NoExtraction
    /\ doc_source = None
    /\ crashed = FALSE
    /\ \E f \in AnyFiles : probe = [NoProbe EXCEPT !.fn = "extract_text", !.file = f]

CallExtractText ==
    /\ probe.fn = "extract_text"
    /\ ~probe.called
    /\ LET r == extract_text(probe.file) IN
       probe' = [probe EXCEPT
                    !.called = TRUE,
                    !.raised = r.raised,
                    !.result = r.value,
                    !.extraction = [kind |-> r.kind, routine |-> r.routine,
                                    parser |-> r.parser]]
    /\ UNCHANGED <<PDF_AVAILABLE, DOCX_AVAILABLE, uploaded_file, document_text,
                   insights, filename, question, ui, event, remote_calls, request,
                   extraction, doc_source, crashed>>

SpecExtract == InitExtract /\ [][CallExtractText]_vars

----------------------------------------------------------------------------
(* generate_insights called directly, on texts around the truncation limit *)

\* a character that occurs in no template, question or text below the limit
BeyondLimit == "#"

\* a text of n characters whose characters past the limit are BeyondLimit
Filled(n, pattern) ==
    [i \in 1..n |-> IF i > max_chars THEN BeyondLimit ELSE pattern[(i % Len(pattern)) + 1]]

PromptLengths == (0..Slack) \cup ((max_chars - Slack)..(max_chars + Slack))

PromptTexts ==
    {Filled(n, p) : n \in PromptLengths, p \in {<<"x">>, <<"y", "z">>}}
    \cup {TruncationMarker, Tail(TruncationMarker)}

PromptQuestions == {<<>>, <<"q">>, <<"q", "?">>}

PromptServices == {ServiceReturns(<<"A">>), ServiceRaises("RateLimitError", <<"d">>)}

InitPrompt ==
    /\ PDF_AVAILABLE = TRUE
    /\ DOCX_AVAILABLE = TRUE
    /\ uploaded_file = NoFile
    /\ document_text = None
    /\ insights = None
    /\ filename = None
    /\ question = Unset
    /\ ui = "none"
    /\ event = Event("start")
    /\ remote_calls = 0
    /\ request = NoRequest
    /\ extraction = NoExtraction
    /\ doc_source = None
    /\ crashed = FALSE
    /\ \E t \in PromptTexts, q \in PromptQuestions, s \in PromptServices :
          probe = [NoProbe EXCEPT !.fn = "generate_insights", !.text = t,
                                  !.question = q, !.service = s]

CallGenerateInsights ==
    /\ probe.fn = "generate_insights"
    /\ ~probe.called
    /\ LET g == generate_insights(probe.text, probe.question, <<"s", "k">>,
                                  DefaultModel, DefaultTemperature, probe.service) IN
       probe' = [probe EXCEPT
                    !.called = TRUE,
                    !.raised = g.raised,
                    !.result = g.value,
                    !.request = g.request]
    /\ UNCHANGED <<PDF_AVAILABLE, DOCX_AVAILABLE, uploaded_file, document_text,
                   insights, filename, question, ui, event, remote_calls, request,
                   extraction, doc_source, crashed>>

SpecPrompt == InitPrompt /\ [][CallGenerateInsights]_vars

----------------------------------------------------------------------------
(* Properties of the prompt builder (under SpecPrompt) *)

PromptBuilt == probe.fn = "generate_insights" /\ probe.called

\* sub occurs in s
Contains(s, sub) ==
    \E i \in 0..(Len(s) - Len(sub)) : SubSeq(s, i + 1, i + Len(sub)) = sub

\* the characters the template adds around the question and the document
TemplateOverhead == Len(PromptHead) + Len(PromptMid) + Len(PromptTail)

Chars(s) == {s[i] : i \in 1..Len(s)}

\* the prompt embeds the first max_chars characters and the marker in the
\* document slot, and nothing of the text past the limit
EmbedsTruncated(prompt, text, q) ==
    /\ prompt = PromptHead \o q \o PromptMid \o SubSeq(text, 1, max_chars)
                  \o TruncationMarker \o PromptTail
    /\ BeyondLimit \notin Chars(prompt)

\* C1 as claimed: for a text longer than 12,000 characters the prompt embeds
\* exactly the first 12,000 characters followed by the truncation marker, no
\* character past position 12,000, and is at most 12,000 + marker length + the
\* fixed template overhead long.
C1_AsClaimed ==
    (PromptBuilt /\ Len(probe.text) > max_chars) =>
        /\ EmbedsTruncated(probe.request.prompt, probe.text, probe.question)
        /\ Len(probe.request.prompt)
             <= max_chars + Len(TruncationMarker) + TemplateOverhead

\* C1 as amended: the same, the length being exactly 12,000 + marker length +
\* the fixed template overhead + the length of the question.
C1_TruncatedPrompt ==
    (PromptBuilt /\ Len(probe.text) > max_chars) =>
        /\ EmbedsTruncated(probe.request.prompt, probe.text, probe.question)
        /\ Len(probe.request.prompt)
             = max_chars + Len(TruncationMarker) + TemplateOverhead
               + Len(probe.question)

C1_Witness ==
    /\ PromptBuilt
    /\ Len(probe.text) = max_chars + Slack
    /\ probe.question = <<"q", "?">>
    /\ Contains(probe.request.prompt, TruncationMarker)

\* C2 as claimed: for a text of at most 12,000 characters the prompt contains
\* the full text verbatim and contains no truncation marker.
C2_AsClaimed ==
    (PromptBuilt /\ Len(probe.text) <= max_chars) =>
        /\ Contains(probe.request.prompt, probe.text)
        /\ ~Contains(probe.request.prompt, TruncationMarker)

\* C2 as amended: for a text of at most 12,000 characters the prompt is exactly
\* the template with the question and the full, unmodified text in their slots
\* (nothing is appended to the text); it contains the truncation marker only
\* when the question, or the text as it follows the "Document:" line, supplies it.
C2_FullTextPrompt ==
    (PromptBuilt /\ Len(probe.text) <= max_chars) =>
        /\ probe.request.prompt
             = PromptHead \o probe.question \o PromptMid \o probe.text \o PromptTail
        /\ Contains(probe.request.prompt, TruncationMarker) =>
              \/ Contains(probe.question, TruncationMarker)
              \/ Contains(PromptMid \o probe.text, TruncationMarker)

C2_Witness ==
    /\ PromptBuilt
    /\ Len(probe.text) = max_chars
    /\ probe.question = <<"q">>
    /\ ~Contains(probe.request.prompt, TruncationMarker)

----------------------------------------------------------------------------
(* Properties of extract_text (under SpecExtract) *)

ExtractCalled == probe.fn = "extract_text" /\ probe.called

SupportedMimes == {MimePdf, MimeDocx, MimeTxt}

HasSupportedExtension(name) ==
    EndsWith(name, DotPdf) \/ EndsWith(name, DotDocx) \/ EndsWith(name, DotTxt)

RefusedUnparsed ==
    /\ probe.result = UnsupportedMsg
    /\ probe.extraction.routine = "none"
    /\ ~probe.extraction.parser

----------------------------------------------------------------------------
(* Properties of the session (under Spec) *)

\* the last run was a generate action whose call of the service failed
FailedCall == event.kind = "generate" /\ remote_calls = 1 /\ event.service.raises

\* C4: for a remote call that fails, the stored insight is the invalid-credential
\* message iff the failure is an authentication failure, the rate-limited
\* message iff it is a rate/quota failure, the invalid-request message echoing
\* the service's detail iff it is an invalid-request failure, and the generic
\* message echoing the exception text for every other failure; the four
\* messages are pairwise distinct.
C4_ErrorMappingExact ==
    FailedCall =>
        LET cls == event.service.cls
            detail == event.service.msg
        IN  /\ insights = InvalidKeyMsg <=> cls = "AuthenticationError"
            /\ insights = RateLimitMsg <=> cls = "RateLimitError"
            /\ insights = InvalidRequestPrefix \o detail <=> cls = "InvalidRequestError"
            /\ insights = GenericErrorPrefix \o detail <=>
                  cls \notin {"AuthenticationError", "RateLimitError",
                              "InvalidRequestError"}
            /\ Cardinality({InvalidKeyMsg, RateLimitMsg, InvalidRequestPrefix \o detail,
                            GenericErrorPrefix \o detail}) = 4

C4_Witness ==
    /\ FailedCall
    /\ event.service.cls = "AuthenticationError"
    /\ insights = InvalidKeyMsg

\* C5: a generate action with an empty credential or an empty question shows a
\* validation message, makes no remote call and leaves the session state
\* (document text, insight, question, filename) unchanged; with both non-empty
\* it makes exactly one remote call.
C5_ValidationBeforeCall ==
    [][event'.kind = "generate" =>
          IF event'.api_key = <<>> \/ event'.question = <<>>
          THEN /\ ui' = (IF event'.api_key = <<>> THEN "need_key" ELSE "need_question")
               /\ remote_calls' = 0
               /\ UNCHANGED <<document_text, insights, question, filename, request>>
          ELSE remote_calls' = 1]_vars

C5_Witness ==
    /\ event.kind = "generate"
    /\ event.api_key # <<>>
    /\ event.question = <<>>
    /\ ui = "need_question"
    /\ remote_calls = 0
    /\ Truthy(insights)

\* C6: no run ends in an unhandled exception; whatever the parser library does
\* (text, no text for a page, an exception) the extract action stores a string
\* as the extraction result, and whatever the service does the generate action
\* that calls it stores a string as the insight.
C6_NoUnhandledException ==
    /\ ~crashed
    /\ event.kind = "extract" => document_text # None
    /\ (event.kind = "generate" /\ remote_calls = 1) => insights # None

C6_Witness ==
    /\ event.kind = "extract"
    /\ PDF_AVAILABLE
    /\ uploaded_file.name = NamePdf
    /\ uploaded_file.content.pdf = Returns(<<Returns(None)>>)
    /\ document_text = ErrPdfPrefix \o NoneTypeConcatMsg
    /\ ~crashed

\* C7 as claimed: the remote service is called only if the most recent extract
\* action succeeded, and after an extract action that failed the question
\* section is not offered (so no failure message is embedded in a prompt).
C7_AsClaimed ==
    /\ remote_calls = 1 => extraction.kind = "ok"
    /\ (event.kind = "extract" /\ extraction.kind # "ok") => ~QuestionSectionShown

\* C8 as claimed: when the PDF (DOCX) capability is unavailable, an extract
\* action on such a file does not invoke the parser and the UI shows the
\* outcome as an error, never as a successful extraction.
C8_AsClaimed ==
    (event.kind = "extract" /\ extraction.kind = "unavailable") =>
        /\ ~extraction.parser
        /\ ui = "error"

\* C9 as claimed: right after the reset the document text, the filename, the
\* insight and its question are all empty, and neither the question section
\* nor the export is offered.  (Stated for sessions whose last extraction
\* succeeded, so that what it shows rests on no failed extraction.)
C9_AsClaimed ==
    (event.kind = "reset" /\ extraction.kind = "ok") =>
        /\ document_text = None
        /\ filename = None
        /\ insights = None
        /\ question = Unset
        /\ ~QuestionSectionShown
        /\ ~ExportOffered

\* C10 as claimed: whenever an export is offered, the report pairs the insight
\* with the question and the document text it was generated from, and with the
\* name of the file that text was extracted from.  (Stated for sessions whose
\* last extraction succeeded, so that what it shows rests on no failed
\* extraction.)
C10_AsClaimed ==
    (ExportOffered /\ extraction.kind = "ok") =>
        /\ result_text.question = request.question
        /\ result_text.excerpt = Take(request.document_text, 2000) \o <<".", ".", ".">>
        /\ result_text.document = doc_source

============================================================================
